---- MODULE Spec2Model ----
(***************************************************************************)
(* Model of the nhl-api HTTP layer (src/src/http_client.rs, error.rs), of  *)
(* its date types GameDate and Season (src/src/date.rs) and of the request *)
(* paths of its Client (src/src/client.rs).                                *)
(*                                                                         *)
(* Strings are sequences of one-character strings, so that slicing,       *)
(* concatenation and substring search are what the Rust code does.         *)
(*                                                                         *)
(* Specifications:                                                         *)
(*   Spec          get_json calls running on one HttpClient                *)
(*   SpecClassify  the pure function HttpClient::error_from_status         *)
(*   SpecJoin      the URL join at the head of HttpClient::get_json        *)
(*   SpecDate      GameDate: to_api_string, from_str, add_days             *)
(*   SpecSeason    Season: end_year, to_api_string, from_str               *)
(*   SpecCurrent   Season::current over the dates the clock can show       *)
(*   SpecBaseUrl   Endpoint::base_url called repeatedly                    *)
(*   SpecLive      get_json calls under the client's timeout (fairness)    *)
(*   SpecClient    the request paths of the Client methods                 *)
(*   SpecSchedule  Client::extract_daily_schedule and daily_schedule       *)
(*   SpecChain     chained GameDate::add_days                              *)
(*   SpecStandings Client::league_standings_for_season, step by step       *)
(*   SpecSeasonTrip  Season format/parse round trips                       *)
(***************************************************************************)
EXTENDS Integers, Sequences, FiniteSets, TLC

VARIABLES
    pc,         \* per call: position in get_json
    endpoint,   \* per call: the endpoint argument
    resource,   \* per call: the resource argument
    full_url,   \* per call: the local full_url
    attempts,   \* per call: number of HTTP GETs issued (request.send())
    response,   \* per call: the response received, NoResponse if none
    classified, \* per call: error_from_status was invoked
    decoded,    \* per call: the body was handed to the JSON decoder
    body,       \* per call: the body read by response.json(), "unread" before
    result,     \* per call: the value get_json returned
    fn_in,      \* input of the pure function under check
    fn_out      \* its output, Pending before it is applied

vars == <<pc, endpoint, resource, full_url, attempts, response, classified,
          decoded, body, result, fn_in, fn_out>>

callVars == <<pc, endpoint, resource, full_url, attempts, response, classified,
              decoded, body, result>>

-----------------------------------------------------------------------------
(* Bounds *)

\* number of get_json calls in flight on the one client
NumCalls == 2

\* longest custom base URL / resource string enumerated in SpecJoin
MaxLen == 3

\* largest value of the Rust type u16 (status_code: u16)
U16Max == 65535

Calls == 1..NumCalls

-----------------------------------------------------------------------------
(* Strings *)

Slash == "/"

\* all strings over alphabet of length at most n
RECURSIVE StrsUpTo(_, _)
StrsUpTo(alphabet, n) ==
    IF n = 0 THEN {<<>>}
    ELSE LET shorter == StrsUpTo(alphabet, n - 1)
         IN  shorter \cup {Append(s, ch) : s \in shorter, ch \in alphabet}

\* str::ends_with('/')
ends_with_slash(s) == Len(s) > 0 /\ s[Len(s)] = Slash

\* str::starts_with('/')
starts_with_slash(s) == Len(s) > 0 /\ s[1] = Slash

\* haystack.contains(needle)
Contains(haystack, needle) ==
    \E i \in 1..(Len(haystack) - Len(needle) + 1) :
        SubSeq(haystack, i, i + Len(needle) - 1) = needle

-----------------------------------------------------------------------------
(* Endpoint *)

ProductionEndpoints ==
    { [tag |-> "ApiWebV1"], [tag |-> "ApiCore"],
      [tag |-> "ApiStats"], [tag |-> "SearchV1"] }

Custom(url) == [tag |-> "Custom", url |-> url]

\* mutant: the stats endpoint loses its rest/ segment
base_url_stats_without_rest(e) ==
    CASE e.tag = "ApiWebV1" ->
           <<"h","t","t","p","s",":","/","/","a","p","i","-","w","e","b",".",
             "n","h","l","e",".","c","o","m","/","v","1","/">>
      [] e.tag = "ApiCore" ->
           <<"h","t","t","p","s",":","/","/","a","p","i",".","n","h","l","e",
             ".","c","o","m","/">>
      [] e.tag = "ApiStats" ->
           <<"h","t","t","p","s",":","/","/","a","p","i",".","n","h","l","e",
             ".","c","o","m","/","s","t","a","t","s","/">>
      [] e.tag = "SearchV1" ->
           <<"h","t","t","p","s",":","/","/","s","e","a","r","c","h",".","d",
             "3",".","n","h","l","e",".","c","o","m","/","a","p","i","/","v",
             "1","/">>
      [] e.tag = "Custom" -> e.url

base_url(e) ==
    CASE e.tag = "ApiWebV1" ->
           <<"h","t","t","p","s",":","/","/","a","p","i","-","w","e","b",".",
             "n","h","l","e",".","c","o","m","/","v","1","/">>
      [] e.tag = "ApiCore" ->
           <<"h","t","t","p","s",":","/","/","a","p","i",".","n","h","l","e",
             ".","c","o","m","/">>
      [] e.tag = "ApiStats" ->
           <<"h","t","t","p","s",":","/","/","a","p","i",".","n","h","l","e",
             ".","c","o","m","/","s","t","a","t","s","/","r","e","s","t","/">>
      [] e.tag = "SearchV1" ->
           <<"h","t","t","p","s",":","/","/","s","e","a","r","c","h",".","d",
             "3",".","n","h","l","e",".","c","o","m","/","a","p","i","/","v",
             "1","/">>
      [] e.tag = "Custom" -> e.url

-----------------------------------------------------------------------------
(* NHLApiError and the results of get_json *)

StatusKinds ==
    { "ResourceNotFound", "RateLimitExceeded", "BadRequest", "Unauthorized",
      "ServerError", "ApiError" }

StatusError(kind, message, status_code) ==
    [kind |-> kind, message |-> message, status_code |-> status_code]

\* NHLApiError::RequestError(#[from] reqwest::Error); cause is the reqwest
\* error's kind
RequestError(cause) == [kind |-> "RequestError", cause |-> cause]

\* NHLApiError::JsonError(#[from] serde_json::Error)
JsonError(cause) == [kind |-> "JsonError", cause |-> cause]

\* impl From<reqwest::Error> for NHLApiError, as applied by the `?` operator
FromReqwestError(cause) == RequestError(cause)

Ok(value) == [kind |-> "Ok", value |-> value]

Pending == [kind |-> "Pending"]

IsErr(r) == r.kind \notin {"Ok", "Pending"}

-----------------------------------------------------------------------------
(* HttpClient::error_from_status *)

RequestTo == <<"R","e","q","u","e","s","t"," ","t","o"," ">>
Failed == <<" ","f","a","i","l","e","d">>
UnexpectedError ==
    <<"U","n","e","x","p","e","c","t","e","d"," ","e","r","r","o","r",":"," ">>

\* format!("Request to {} failed", url)
RequestFailedMessage(url) == RequestTo \o url \o Failed

\* mutant: the ServerError range stops one short of 599
error_from_status_short_range(status_code, url) ==
    LET message == RequestFailedMessage(url)
    IN  CASE status_code = 404 ->
               StatusError("ResourceNotFound", message, status_code)
          [] status_code = 429 ->
               StatusError("RateLimitExceeded", message, status_code)
          [] status_code = 400 ->
               StatusError("BadRequest", message, status_code)
          [] status_code = 401 ->
               StatusError("Unauthorized", message, status_code)
          [] status_code \in 500..598 ->
               StatusError("ServerError", message, status_code)
          [] OTHER ->
               StatusError("ApiError", UnexpectedError \o message, status_code)

\* mutant: the ServerError arm reports a fixed 500 instead of the status given
error_from_status_fixed_500(status_code, url) ==
    LET message == RequestFailedMessage(url)
    IN  CASE status_code = 404 ->
               StatusError("ResourceNotFound", message, status_code)
          [] status_code = 429 ->
               StatusError("RateLimitExceeded", message, status_code)
          [] status_code = 400 ->
               StatusError("BadRequest", message, status_code)
          [] status_code = 401 ->
               StatusError("Unauthorized", message, status_code)
          [] status_code \in 500..599 ->
               StatusError("ServerError", message, 500)
          [] OTHER ->
               StatusError("ApiError", UnexpectedError \o message, status_code)

\* mutant: the generic arm builds its own message and leaves the url out
error_from_status_generic_no_url(status_code, url) ==
    LET message == RequestFailedMessage(url)
    IN  CASE status_code = 404 ->
               StatusError("ResourceNotFound", message, status_code)
          [] status_code = 429 ->
               StatusError("RateLimitExceeded", message, status_code)
          [] status_code = 400 ->
               StatusError("BadRequest", message, status_code)
          [] status_code = 401 ->
               StatusError("Unauthorized", message, status_code)
          [] status_code \in 500..599 ->
               StatusError("ServerError", message, status_code)
          [] OTHER ->
               StatusError("ApiError", UnexpectedError \o RequestTo \o Failed,
                           status_code)

error_from_status(status_code, url) ==
    LET message == RequestFailedMessage(url)
    IN  CASE status_code = 404 ->
               StatusError("ResourceNotFound", message, status_code)
          [] status_code = 429 ->
               StatusError("RateLimitExceeded", message, status_code)
          [] status_code = 400 ->
               StatusError("BadRequest", message, status_code)
          [] status_code = 401 ->
               StatusError("Unauthorized", message, status_code)
          [] status_code \in 500..599 ->
               StatusError("ServerError", message, status_code)
          [] OTHER ->
               StatusError("ApiError", UnexpectedError \o message, status_code)

-----------------------------------------------------------------------------
(* HttpClient::handle_response and HttpClient::get_json *)

NoResponse == [received |-> FALSE]

Response(status_code) == [received |-> TRUE, status |-> status_code]

\* reqwest::StatusCode::is_success
is_success(status_code) == status_code \in 200..299

\* mutant: only statuses of 400 and above are treated as failures
handle_response_below_400(resp, url) ==
    IF resp.status < 400
    THEN Ok(resp)
    ELSE error_from_status(resp.status, url)

handle_response(resp, url) ==
    IF is_success(resp.status)
    THEN Ok(resp)
    ELSE error_from_status(resp.status, url)

\* mutant: when both sides carry a slash, both are kept
build_full_url_keeps_both(base, res) ==
    IF ~ends_with_slash(base) /\ ~starts_with_slash(res)
    THEN base \o <<Slash>> \o res
    ELSE base \o res

\* mutant: when neither side carries a slash, none is inserted
build_full_url_no_insert(base, res) ==
    IF ends_with_slash(base) /\ starts_with_slash(res)
    THEN base \o Tail(res)
    ELSE base \o res

\* let full_url = if .. else if .. else ..
build_full_url(base, res) ==
    IF ends_with_slash(base) /\ starts_with_slash(res)
    THEN base \o Tail(res)
    ELSE IF ~ends_with_slash(base) /\ ~starts_with_slash(res)
         THEN base \o <<Slash>> \o res
         ELSE base \o res

\* bodies a server may send for a 2xx response, by how they relate to T
Bodies == {"valid", "malformed_json", "missing_field", "type_mismatch"}

\* mutant: a body that does not decode yields a default value of T
response_json_default(b) ==
    IF b = "valid" THEN Ok(b) ELSE Ok("default")

\* response.json::<T>() once the body bytes are read: the decoded value, or
\* the reqwest::Error (decode kind) that wraps the decoder's diagnostic
response_json(b) ==
    IF b = "valid" THEN Ok(b) ELSE FromReqwestError("decode")

\* ways request.send() fails before any response is obtained
TransportCauses == {"dns", "connect", "tls", "timeout"}

\* statuses a server may answer with
ResponseStatuses == {199, 200, 299, 300, 400, 401, 404, 418, 429, 500, 599, 600}

\* endpoints and resources the calls of Spec are made with
CallEndpoints == {[tag |-> "ApiWebV1"], Custom(<<"h">>)}
CallResources == {<<"a">>, <<Slash, "a">>}

\* get_json up to request.send(): the URL is built and one GET is issued.
\* The query parameters move into the request and are not kept.
get_json_send(c, e, r) ==
    /\ pc[c] = "idle"
    /\ endpoint' = [endpoint EXCEPT ![c] = e]
    /\ resource' = [resource EXCEPT ![c] = r]
    /\ full_url' = [full_url EXCEPT ![c] = build_full_url(base_url(e), r)]
    /\ attempts' = [attempts EXCEPT ![c] = @ + 1]
    /\ pc' = [pc EXCEPT ![c] = "awaiting_response"]
    /\ UNCHANGED <<response, classified, decoded, body, result, fn_in, fn_out>>

\* mutant: a transport failure is run through the status classifier
send_error_classified(c, cause) ==
    /\ pc[c] = "awaiting_response"
    /\ classified' = [classified EXCEPT ![c] = TRUE]
    /\ result' = [result EXCEPT ![c] = error_from_status(0, resource[c])]
    /\ pc' = [pc EXCEPT ![c] = "done"]
    /\ UNCHANGED <<endpoint, resource, full_url, attempts, response,
                   decoded, body, fn_in, fn_out>>

\* mutant: a timed-out GET is sent once more before the call gives up
send_error_retry(c, cause) ==
    /\ pc[c] = "awaiting_response"
    /\ IF cause = "timeout" /\ attempts[c] < 2
       THEN /\ attempts' = [attempts EXCEPT ![c] = @ + 1]
            /\ UNCHANGED <<pc, result>>
       ELSE /\ result' = [result EXCEPT ![c] = FromReqwestError(cause)]
            /\ pc' = [pc EXCEPT ![c] = "done"]
            /\ UNCHANGED attempts
    /\ UNCHANGED <<endpoint, resource, full_url, response, classified,
                   decoded, body, fn_in, fn_out>>

\* mutant: no timeout is set on the client, so a request that is never
\* answered never fails
send_error_without_timeout(c, cause) ==
    /\ cause # "timeout"
    /\ pc[c] = "awaiting_response"
    /\ result' = [result EXCEPT ![c] = FromReqwestError(cause)]
    /\ pc' = [pc EXCEPT ![c] = "done"]
    /\ UNCHANGED <<endpoint, resource, full_url, attempts, response, classified,
                   decoded, body, fn_in, fn_out>>

\* request.send().await? returns Err: no response was obtained
send_error(c, cause) ==
    /\ pc[c] = "awaiting_response"
    /\ result' = [result EXCEPT ![c] = FromReqwestError(cause)]
    /\ pc' = [pc EXCEPT ![c] = "done"]
    /\ UNCHANGED <<endpoint, resource, full_url, attempts, response, classified,
                   decoded, body, fn_in, fn_out>>

\* mutant: the resource named in a failure is read from a buffer the calls
\* share, which holds the resource of the neighbouring call
receive_response_shared_buffer(c, status_code) ==
    /\ pc[c] = "awaiting_response"
    /\ LET resp == Response(status_code)
           handled == handle_response(resp, resource[(c % NumCalls) + 1])
       IN  /\ response' = [response EXCEPT ![c] = resp]
           /\ IF handled.kind = "Ok"
              THEN /\ pc' = [pc EXCEPT ![c] = "awaiting_body"]
                   /\ UNCHANGED <<classified, result>>
              ELSE /\ classified' = [classified EXCEPT ![c] = TRUE]
                   /\ result' = [result EXCEPT ![c] = handled]
                   /\ pc' = [pc EXCEPT ![c] = "done"]
    /\ UNCHANGED <<endpoint, resource, full_url, attempts, decoded, body,
                   fn_in, fn_out>>

\* request.send().await? returns a response; handle_response(response, resource)?
receive_response(c, status_code) ==
    /\ pc[c] = "awaiting_response"
    /\ LET resp == Response(status_code)
           handled == handle_response(resp, resource[c])
       IN  /\ response' = [response EXCEPT ![c] = resp]
           /\ IF handled.kind = "Ok"
              THEN /\ pc' = [pc EXCEPT ![c] = "awaiting_body"]
                   /\ UNCHANGED <<classified, result>>
              ELSE /\ classified' = [classified EXCEPT ![c] = TRUE]
                   /\ result' = [result EXCEPT ![c] = handled]
                   /\ pc' = [pc EXCEPT ![c] = "done"]
    /\ UNCHANGED <<endpoint, resource, full_url, attempts, decoded, body,
                   fn_in, fn_out>>

\* response.json::<T>().await?: the body b arrives and is decoded
json_body(c, b) ==
    /\ pc[c] = "awaiting_body"
    /\ body' = [body EXCEPT ![c] = b]
    /\ decoded' = [decoded EXCEPT ![c] = TRUE]
    /\ result' = [result EXCEPT ![c] = response_json(b)]
    /\ pc' = [pc EXCEPT ![c] = "done"]
    /\ UNCHANGED <<endpoint, resource, full_url, attempts, response, classified,
                   fn_in, fn_out>>

\* response.json::<T>().await?: reading the body fails, nothing is decoded
json_read_error(c) ==
    /\ pc[c] = "awaiting_body"
    /\ result' = [result EXCEPT ![c] = FromReqwestError("body")]
    /\ pc' = [pc EXCEPT ![c] = "done"]
    /\ UNCHANGED <<endpoint, resource, full_url, attempts, response, classified,
                   decoded, body, fn_in, fn_out>>

NoInput == [op |-> "none"]

InitCalls ==
    /\ pc = [c \in Calls |-> "idle"]
    /\ endpoint = [c \in Calls |-> [tag |-> "unset"]]
    /\ resource = [c \in Calls |-> <<>>]
    /\ full_url = [c \in Calls |-> <<>>]
    /\ attempts = [c \in Calls |-> 0]
    /\ response = [c \in Calls |-> NoResponse]
    /\ classified = [c \in Calls |-> FALSE]
    /\ decoded = [c \in Calls |-> FALSE]
    /\ body = [c \in Calls |-> "unread"]
    /\ result = [c \in Calls |-> Pending]

Init ==
    /\ InitCalls
    /\ fn_in = NoInput
    /\ fn_out = Pending

Next ==
    \/ \E c \in Calls, e \in CallEndpoints, r \in CallResources :
           get_json_send(c, e, r)
    \/ \E c \in Calls, cause \in TransportCauses : send_error(c, cause)
    \/ \E c \in Calls, s \in ResponseStatuses : receive_response(c, s)
    \/ \E c \in Calls, b \in Bodies : json_body(c, b)
    \/ \E c \in Calls : json_read_error(c)

Spec == Init /\ [][Next]_vars

-----------------------------------------------------------------------------
(* SpecClassify: error_from_status applied to every u16 status code *)

ClassifyUrls == {<<"a">>, <<Slash, "b">>}

InitClassify ==
    /\ InitCalls
    /\ fn_in \in [op : {"error_from_status"}, status_code : 0..U16Max,
                  url : ClassifyUrls]
    /\ fn_out = Pending

Classify ==
    /\ fn_in.op = "error_from_status"
    /\ fn_out = Pending
    /\ fn_out' = error_from_status(fn_in.status_code, fn_in.url)
    /\ UNCHANGED <<callVars, fn_in>>

NextClassify == Classify

SpecClassify == InitClassify /\ [][NextClassify]_vars

-----------------------------------------------------------------------------
(* SpecJoin: the URL join of get_json applied to bases and resources *)

JoinStrings == StrsUpTo({Slash, "a"}, MaxLen)

\* custom base URLs: a scheme-and-host stand-in "h" followed by any path
JoinEndpoints ==
    ProductionEndpoints \cup {Custom(<<"h">> \o u) : u \in JoinStrings}

InitJoin ==
    /\ InitCalls
    /\ fn_in \in [op : {"full_url"}, endpoint : JoinEndpoints,
                  resource : JoinStrings]
    /\ fn_out = Pending

Join ==
    /\ fn_in.op = "full_url"
    /\ fn_out = Pending
    /\ fn_out' = [kind |-> "Url",
                  url |-> build_full_url(base_url(fn_in.endpoint), fn_in.resource)]
    /\ UNCHANGED <<callVars, fn_in>>

NextJoin == Join

SpecJoin == InitJoin /\ [][NextJoin]_vars

-----------------------------------------------------------------------------
(* Decimal text, as core::fmt and str::parse produce and read it *)

DigitChars == <<"0", "1", "2", "3", "4", "5", "6", "7", "8", "9">>

\* u8::is_ascii_digit
IsDigit(ch) == \E i \in 1..10 : DigitChars[i] = ch

DigitValue(ch) == (CHOOSE i \in 1..10 : DigitChars[i] = ch) - 1

\* the decimal text of n >= 0, as "{}" writes an unsigned integer
RECURSIVE ToDecimal(_)
ToDecimal(n) ==
    IF n < 10 THEN <<DigitChars[n + 1]>>
    ELSE Append(ToDecimal(n \div 10), DigitChars[(n % 10) + 1])

\* the decimal text of n >= 0, zero-padded on the left to width
RECURSIVE ZeroPad(_, _)
ZeroPad(text, width) ==
    IF Len(text) >= width THEN text ELSE ZeroPad(<<"0">> \o text, width)

\* the value of a sequence of ASCII digits
RECURSIVE DecimalValue(_)
DecimalValue(digits) ==
    IF digits = <<>> THEN 0
    ELSE 10 * DecimalValue(SubSeq(digits, 1, Len(digits) - 1))
         + DigitValue(digits[Len(digits)])

-----------------------------------------------------------------------------
(* chrono::NaiveDate, as date.rs uses it *)

\* chrono::NaiveDate::MIN and MAX are January 1 of MinYear, December 31 of MaxYear
MinYear == -262143
MaxYear == 262142

IsLeapYear(y) == y % 4 = 0 /\ (y % 100 # 0 \/ y % 400 = 0)

DaysInMonth(y, m) ==
    IF m = 2 THEN (IF IsLeapYear(y) THEN 29 ELSE 28)
    ELSE IF m \in {4, 6, 9, 11} THEN 30
    ELSE 31

\* NaiveDate::from_ymd_opt(year, month, day).is_some()
IsValidYmd(y, m, d) ==
    /\ y >= MinYear /\ y <= MaxYear
    /\ m >= 1 /\ m <= 12
    /\ d >= 1 /\ d <= DaysInMonth(y, m)

Ymd(y, m, d) == [year |-> y, month |-> m, day |-> d]

\* number of days from 1970-01-01 to the date (negative before it)
days_from_civil(date) ==
    LET y == IF date.month <= 2 THEN date.year - 1 ELSE date.year
        era == y \div 400
        yoe == y - era * 400
        mp == (date.month + 9) % 12
        doy == (153 * mp + 2) \div 5 + date.day - 1
        doe == yoe * 365 + yoe \div 4 - yoe \div 100 + doy
    IN  era * 146097 + doe - 719468

\* the date that many days from 1970-01-01
civil_from_days(days) ==
    LET z == days + 719468
        era == z \div 146097
        doe == z - era * 146097
        yoe == (doe - doe \div 1460 + doe \div 36524 - doe \div 146096) \div 365
        doy == doe - (365 * yoe + yoe \div 4 - yoe \div 100)
        mp == (5 * doy + 2) \div 153
        d == doy - (153 * mp + 2) \div 5 + 1
        m == IF mp < 10 THEN mp + 3 ELSE mp - 9
        y == yoe + era * 400 + (IF m <= 2 THEN 1 ELSE 0)
    IN  Ymd(y, m, d)

Panic(message) == [kind |-> "Panic", message |-> message]

\* NaiveDate + chrono::Duration::days(days): checked_add_signed(..).expect(..)
naive_date_add_days(date, days) ==
    LET sum == civil_from_days(days_from_civil(date) + days)
    IN  IF sum.year >= MinYear /\ sum.year <= MaxYear
        THEN [kind |-> "NaiveDate", date |-> sum]
        ELSE Panic("NaiveDate + TimeDelta overflowed")

\* the year as "%Y" writes it: four digits for 0..=9999, else "{:+05}"
write_year(y) ==
    IF y >= 0 /\ y <= 9999 THEN ZeroPad(ToDecimal(y), 4)
    ELSE IF y < 0 THEN <<"-">> \o ZeroPad(ToDecimal(-y), 4)
    ELSE <<"+">> \o ZeroPad(ToDecimal(y), 4)

\* date.format("%Y-%m-%d").to_string()
naive_date_format(date) ==
    write_year(date.year) \o <<"-">> \o ZeroPad(ToDecimal(date.month), 2)
        \o <<"-">> \o ZeroPad(ToDecimal(date.day), 2)

ParseError(cause) == [kind |-> "ParseError", cause |-> cause]

\* scan::number of chrono(s, min, max): the leading digits of s, at most max
scan_number(s, min, max) ==
    LET window == IF Len(s) > max THEN max ELSE Len(s)
        upto == CHOOSE i \in 0..window :
                    /\ \A j \in 1..i : IsDigit(s[j])
                    /\ i = window \/ ~IsDigit(s[i + 1])
    IN  IF upto < min
        THEN ParseError(IF window = 0 THEN "TooShort" ELSE "Invalid")
        ELSE [kind |-> "Scanned", value |-> DecimalValue(SubSeq(s, 1, upto)),
              rest |-> SubSeq(s, upto + 1, Len(s))]

\* the signed numeric item %Y: an explicit sign lifts the width of 4
scan_year(s) ==
    IF s # <<>> /\ s[1] = "-"
    THEN LET n == scan_number(Tail(s), 1, Len(s))
         IN  IF n.kind = "Scanned" THEN [n EXCEPT !.value = -n.value] ELSE n
    ELSE IF s # <<>> /\ s[1] = "+"
         THEN scan_number(Tail(s), 1, Len(s))
         ELSE scan_number(s, 1, 4)

\* the literal item "-"
scan_dash(s) ==
    IF s = <<>> THEN ParseError("TooShort")
    ELSE IF s[1] # "-" THEN ParseError("Invalid")
    ELSE [kind |-> "Scanned", value |-> 0, rest |-> Tail(s)]

\* NaiveDate::parse_from_str(s, "%Y-%m-%d")
naive_date_parse(s) ==
    LET y == scan_year(s) IN
    IF y.kind # "Scanned" THEN y ELSE
    LET l1 == scan_dash(y.rest) IN
    IF l1.kind # "Scanned" THEN l1 ELSE
    LET m == scan_number(l1.rest, 1, 2) IN
    IF m.kind # "Scanned" THEN m ELSE
    LET l2 == scan_dash(m.rest) IN
    IF l2.kind # "Scanned" THEN l2 ELSE
    LET d == scan_number(l2.rest, 1, 2) IN
    IF d.kind # "Scanned" THEN d ELSE
    IF d.rest # <<>> THEN ParseError("TooLong") ELSE
    IF ~IsValidYmd(y.value, m.value, d.value) THEN ParseError("OutOfRange")
    ELSE [kind |-> "NaiveDate", date |-> Ymd(y.value, m.value, d.value)]

-----------------------------------------------------------------------------
(* GameDate *)

Now == [kind |-> "Now"]

Date(date) == [kind |-> "Date", date |-> date]

NowToken == <<"n", "o", "w">>

\* GameDate::from_ymd
GameDate_from_ymd(y, m, d) ==
    IF IsValidYmd(y, m, d) THEN Date(Ymd(y, m, d)) ELSE [kind |-> "None"]

\* mutant: month and day are written without zero padding ("%Y-%-m-%-d")
GameDate_to_api_string_unpadded(gd) ==
    IF gd.kind = "Now" THEN NowToken
    ELSE write_year(gd.date.year) \o <<"-">> \o ToDecimal(gd.date.month)
             \o <<"-">> \o ToDecimal(gd.date.day)

\* GameDate::to_api_string
GameDate_to_api_string(gd) ==
    IF gd.kind = "Now" THEN NowToken ELSE naive_date_format(gd.date)

\* impl Display for GameDate
GameDate_display(gd) == GameDate_to_api_string(gd)

\* mutant: every receiver is resolved to today, a specific date included
GameDate_as_date_always_today(gd, today) == today

\* GameDate::as_date; today is chrono::Local::now().date_naive()
GameDate_as_date(gd, today) ==
    IF gd.kind = "Now" THEN today ELSE gd.date

\* GameDate::add_days
GameDate_add_days(gd, days, today) ==
    LET sum == naive_date_add_days(GameDate_as_date(gd, today), days)
    IN  IF sum.kind = "NaiveDate" THEN Date(sum.date) ELSE sum

\* mutant: the text is read as year-day-month ("%Y-%d-%m")
GameDate_from_str_ydm(s) ==
    IF s = NowToken THEN Now
    ELSE LET parsed == naive_date_parse(s)
         IN  IF parsed.kind # "NaiveDate" THEN parsed
             ELSE IF IsValidYmd(parsed.date.year, parsed.date.day,
                                parsed.date.month)
                  THEN Date(Ymd(parsed.date.year, parsed.date.day,
                                parsed.date.month))
                  ELSE ParseError("OutOfRange")

\* impl FromStr for GameDate
GameDate_from_str(s) ==
    IF s = NowToken THEN Now
    ELSE LET parsed == naive_date_parse(s)
         IN  IF parsed.kind = "NaiveDate" THEN Date(parsed.date) ELSE parsed

-----------------------------------------------------------------------------
(* SpecDate: the GameDate functions applied to dates, strings and offsets *)

Str10(a, b, c, d, e, f, g, h, i, j) == <<a, b, c, d, e, f, g, h, i, j>>

\* years of the dates enumerated: the ends of the NaiveDate range, the ends
\* of the four-digit range, century and leap years, and current seasons
DateYears == {MinYear, -1, 0, 1, 999, 1900, 2000, 2023, 2024, 9999, 10000, MaxYear}

SampleDates ==
    {Ymd(y, m, d) : y \in DateYears, m \in 1..12, d \in 1..31}
        \cap {x \in [year : DateYears, month : 1..12, day : 1..31] :
                  IsValidYmd(x.year, x.month, x.day)}

GameDates == {Now} \cup {Date(d) : d \in SampleDates}

\* strings handed to GameDate::from_str
ParseStrings ==
    { NowToken,
      <<>>,
      Str10("2","0","2","4","-","1","0","-","1","9"),
      Str10("2","0","2","4","/","1","0","/","1","9"),
      Str10("1","0","-","1","9","-","2","0","2","4"),
      Str10("2","0","2","4","-","1","3","-","0","1"),
      Str10("2","0","2","4","-","0","2","-","3","0"),
      Str10("2","0","2","4","-","0","2","-","2","9"),
      Str10("2","0","2","3","-","0","2","-","2","9"),
      Str10("2","0","2","4","-","0","0","-","1","0"),
      Str10("2","0","2","4","-","1","0","-","0","0"),
      Str10("n","o","t","-","a","-","d","a","t","e"),
      Str10("2","0","2","4","1","0","1","9","0","0"),
      <<"2","0","2","4","-","1","0">>,
      <<"2","0","2","4","-","1","0","-">>,
      <<"2","4","-","1","0","-","1","9">>,
      <<"2","0","2","4","-","1","-","5">>,
      <<"2","0","2","4","-","1","0","-","1","9","0">>,
      <<"2","0","2","4","-","1","0","-","1","9","x">>,
      <<"2","0","2","4","1","-","1","0","-","1","9">>,
      <<"+","1","0","0","0","0","-","0","1","-","0","1">>,
      <<"-","0","0","0","1","-","0","1","-","0","1">>,
      <<"N","o","w">>,
      <<"n","o","w","x">>,
      <<"n","o">> }

\* receivers of add_days: Now, and the dates around the ends of months
AddReceivers ==
    {Now} \cup {Date(d) : d \in {x \in SampleDates :
                    /\ x.year \in {MinYear, 0, 1900, 2000, 2023, 2024, MaxYear}
                    /\ x.day \in {1, 3, 15, 19, 28, 29, 30, 31}}}

\* day offsets handed to add_days; the largest ones leave the NaiveDate range
Offsets ==
    {-100000000, -1825, -366, -365, -5, -2, -1, 0, 1, 2, 5, 365, 366, 1825,
     100000000}

\* values of chrono::Local::now().date_naive()
Todays == {Ymd(2024, 12, 30), Ymd(2024, 2, 28)}

InitDate ==
    /\ InitCalls
    /\ fn_in \in
          [op : {"to_api_string", "round_trip"}, gd : GameDates]
          \cup [op : {"from_str"}, s : ParseStrings]
          \cup [op : {"add_days"}, gd : AddReceivers, days : Offsets,
                today : Todays]
    /\ fn_out = Pending

\* gd.to_api_string() and format!("{}", gd)
FormatDate ==
    /\ fn_in.op = "to_api_string"
    /\ fn_out = Pending
    /\ fn_out' = [kind |-> "Formatted",
                  api |-> GameDate_to_api_string(fn_in.gd),
                  display |-> GameDate_display(fn_in.gd)]
    /\ UNCHANGED <<callVars, fn_in>>

\* s.parse::<GameDate>()
ParseDate ==
    /\ fn_in.op = "from_str"
    /\ fn_out = Pending
    /\ fn_out' = GameDate_from_str(fn_in.s)
    /\ UNCHANGED <<callVars, fn_in>>

\* gd.to_api_string().parse::<GameDate>()
RoundTripDate ==
    /\ fn_in.op = "round_trip"
    /\ fn_out = Pending
    /\ fn_out' = [kind |-> "RoundTrip",
                  text |-> GameDate_to_api_string(fn_in.gd),
                  parsed |-> GameDate_from_str(GameDate_to_api_string(fn_in.gd))]
    /\ UNCHANGED <<callVars, fn_in>>

\* gd.add_days(days)
AddDays ==
    /\ fn_in.op = "add_days"
    /\ fn_out = Pending
    /\ fn_out' = GameDate_add_days(fn_in.gd, fn_in.days, fn_in.today)
    /\ UNCHANGED <<callVars, fn_in>>

NextDate ==
    \/ FormatDate
    \/ ParseDate
    \/ RoundTripDate
    \/ AddDays

SpecDate == InitDate /\ [][NextDate]_vars

-----------------------------------------------------------------------------
(* Season *)

\* the one non-ASCII character of the strings enumerated: U+00E9, two bytes
\* in UTF-8
EAcute == "U+00E9"

\* char::len_utf8
len_utf8(ch) == IF ch = EAcute THEN 2 ELSE 1

\* str::len: the length in bytes
RECURSIVE byte_len(_)
byte_len(text) ==
    IF text = <<>> THEN 0
    ELSE byte_len(SubSeq(text, 1, Len(text) - 1)) + len_utf8(text[Len(text)])

\* str::is_char_boundary
is_char_boundary(text, index) ==
    \E k \in 0..Len(text) : byte_len(SubSeq(text, 1, k)) = index

\* &text[from..to]: the characters between two byte offsets, a panic when
\* an offset is not on a character boundary
byte_slice(text, from, to) ==
    IF ~is_char_boundary(text, from) \/ ~is_char_boundary(text, to)
    THEN Panic("byte index is not a char boundary")
    ELSE LET a == CHOOSE k \in 0..Len(text) : byte_len(SubSeq(text, 1, k)) = from
             b == CHOOSE k \in 0..Len(text) : byte_len(SubSeq(text, 1, k)) = to
         IN  [kind |-> "Str", text |-> SubSeq(text, a + 1, b)]

\* text.parse::<u16>().ok(): an optional + sign, then one or more digits
u16_parse(text) ==
    LET digits == IF text # <<>> /\ text[1] = "+" THEN Tail(text) ELSE text
    IN  IF digits = <<>> \/ \E i \in 1..Len(digits) : ~IsDigit(digits[i])
        THEN [kind |-> "None"]
        ELSE IF DecimalValue(digits) > U16Max
             THEN [kind |-> "None"]
             ELSE [kind |-> "Some", value |-> DecimalValue(digits)]

\* build profiles: overflow checks on (debug) or off (release)
Builds == {"debug", "release"}

\* a + b on u16: a panic with overflow checks, wrapping without
u16_add(a, b, build) ==
    IF a + b > U16Max
    THEN IF build = "debug"
         THEN Panic("attempt to add with overflow")
         ELSE [kind |-> "U16", value |-> (a + b) % (U16Max + 1)]
    ELSE [kind |-> "U16", value |-> a + b]

Season(start_year) == [start_year |-> start_year]

\* Season::end_year
Season_end_year(season, build) == u16_add(season.start_year, 1, build)

\* Season::to_api_string
Season_to_api_string(season, build) ==
    LET end == Season_end_year(season, build)
    IN  IF end.kind = "Panic" THEN end
        ELSE [kind |-> "String",
              text |-> ToDecimal(season.start_year) \o ToDecimal(end.value)]

\* impl Display for Season
Season_display(season, build) == Season_to_api_string(season, build)

\* Season::from_str
Season_from_str(s, build) ==
    IF byte_len(s) # 8 THEN [kind |-> "None"] ELSE
    LET first == byte_slice(s, 0, 4) IN
    IF first.kind = "Panic" THEN first ELSE
    LET start_year == u16_parse(first.text) IN
    IF start_year.kind = "None" THEN [kind |-> "None"] ELSE
    LET last == byte_slice(s, 4, 8) IN
    IF last.kind = "Panic" THEN last ELSE
    LET end_year == u16_parse(last.text) IN
    IF end_year.kind = "None" THEN [kind |-> "None"] ELSE
    LET next == u16_add(start_year.value, 1, build) IN
    IF next.kind = "Panic" THEN next ELSE
    IF end_year.value # next.value THEN [kind |-> "None"]
    ELSE [kind |-> "Some", season |-> Season(start_year.value)]

-----------------------------------------------------------------------------
(* SpecSeason: the Season functions applied to start years and strings *)

\* years whose four-digit texts are paired into 8-digit strings
SeasonYears == {0, 9, 999, 1000, 1999, 2000, 2023, 2024, 2025, 9998, 9999}

\* strings handed to Season::from_str
SeasonStrings ==
    {ZeroPad(ToDecimal(a), 4) \o ZeroPad(ToDecimal(b), 4) :
         a \in SeasonYears, b \in SeasonYears}
    \cup
    { <<>>,
      <<"2","0","2","3">>,
      <<"2","0","2","3","2","4">>,
      <<"2","0","2","3","2","0","2","4","0">>,
      <<"a","b","c","d"," ","e","f","g","h">>,
      <<"2","0","2","3","a","b","c","d">>,
      <<"a","b","c","d","2","0","2","4">>,
      <<"2","0","2","3","-","2","4"," ">>,
      <<"+","9","9","9","1","0","0","0">>,
      <<"0","0","0","9","+","0","1","0">>,
      <<"-","9","9","9","1","0","0","0">>,
      <<"+","+","+","+","+","+","+","+">>,
      <<"2","0","2",EAcute,"0","2","4">>,
      <<"2","0",EAcute,"3","2","0","2">>,
      <<"2","0","2","3","2","0",EAcute>>,
      <<"2","0","2","3","2","0","2",EAcute>>,
      <<EAcute,EAcute,EAcute,EAcute>> }

InitSeason ==
    /\ InitCalls
    /\ fn_in \in
          [op : {"season_to_api_string"}, start_year : 0..U16Max, build : Builds]
          \cup [op : {"season_from_str"}, s : SeasonStrings, build : Builds]
    /\ fn_out = Pending

\* season.end_year(), season.to_api_string() and format!("{}", season)
FormatSeason ==
    /\ fn_in.op = "season_to_api_string"
    /\ fn_out = Pending
    /\ LET season == Season(fn_in.start_year)
       IN  fn_out' = [kind |-> "SeasonFormatted",
                      end_year |-> Season_end_year(season, fn_in.build),
                      api |-> Season_to_api_string(season, fn_in.build),
                      display |-> Season_display(season, fn_in.build)]
    /\ UNCHANGED <<callVars, fn_in>>

\* Season::from_str(s)
ParseSeason ==
    /\ fn_in.op = "season_from_str"
    /\ fn_out = Pending
    /\ fn_out' = Season_from_str(fn_in.s, fn_in.build)
    /\ UNCHANGED <<callVars, fn_in>>

NextSeason ==
    \/ FormatSeason
    \/ ParseSeason

SpecSeason == InitSeason /\ [][NextSeason]_vars

-----------------------------------------------------------------------------
(* Season::current *)

\* n as u16, for n of type i32: the low 16 bits
i32_as_u16(n) == n % (U16Max + 1)

\* a - b on u16: a panic with overflow checks, wrapping without
u16_sub(a, b, build) ==
    IF a - b < 0
    THEN IF build = "debug"
         THEN Panic("attempt to subtract with overflow")
         ELSE [kind |-> "U16", value |-> (a - b) % (U16Max + 1)]
    ELSE [kind |-> "U16", value |-> a - b]

\* mutant: the season is taken to start in September
Season_current_from_september(now, build) ==
    LET year == i32_as_u16(now.year)
    IN  IF now.month < 9
        THEN LET previous == u16_sub(year, 1, build)
             IN  IF previous.kind = "Panic" THEN previous
                 ELSE [kind |-> "Season", season |-> Season(previous.value)]
        ELSE [kind |-> "Season", season |-> Season(year)]

\* Season::current; now is chrono::Local::now().date_naive()
Season_current(now, build) ==
    LET year == i32_as_u16(now.year)
    IN  IF now.month < 10
        THEN LET previous == u16_sub(year, 1, build)
             IN  IF previous.kind = "Panic" THEN previous
                 ELSE [kind |-> "Season", season |-> Season(previous.value)]
        ELSE [kind |-> "Season", season |-> Season(year)]

-----------------------------------------------------------------------------
(* SpecCurrent: Season::current applied to the dates the clock can show *)

\* years of the local date. chrono's Local::now() reads the system clock:
\* it aborts on a clock before the Unix epoch, and operating systems refuse
\* to set a clock past the year 30828 (Windows FILETIME; Linux stops near
\* 2232). 1969 is reached west of Greenwich on the first day of the epoch.
ClockYears == (1969..2262) \cup {9999, 10000, 30827, 30828}

ClockDates ==
    {Ymd(y, m, d) : y \in ClockYears, m \in 1..12, d \in {1, 15, 28}}

InitCurrent ==
    /\ InitCalls
    /\ fn_in \in [op : {"season_current"}, now : ClockDates, build : Builds]
    /\ fn_out = Pending

\* Season::current()
CurrentSeason ==
    /\ fn_in.op = "season_current"
    /\ fn_out = Pending
    /\ fn_out' = Season_current(fn_in.now, fn_in.build)
    /\ UNCHANGED <<callVars, fn_in>>

NextCurrent == CurrentSeason

SpecCurrent == InitCurrent /\ [][NextCurrent]_vars

-----------------------------------------------------------------------------
(* SpecBaseUrl: Endpoint::base_url called repeatedly on one endpoint *)

\* the endpoints base_url is called on: the four production variants and
\* Custom over every short string, the empty one included
BaseUrlEndpoints ==
    ProductionEndpoints
        \cup {Custom(u) : u \in StrsUpTo({Slash, "a", ":"}, MaxLen)}

InitBaseUrl ==
    /\ InitCalls
    /\ fn_in \in [op : {"base_url"}, endpoint : BaseUrlEndpoints]
    /\ fn_out = Pending

\* endpoint.base_url(), once more on the same endpoint; the values returned
\* so far are kept in call order
BaseUrl ==
    /\ fn_in.op = "base_url"
    /\ IF fn_out = Pending
       THEN fn_out' = [kind |-> "BaseUrls", urls |-> <<base_url(fn_in.endpoint)>>]
       ELSE /\ Len(fn_out.urls) <= NumCalls
            /\ fn_out' = [fn_out EXCEPT
                              !.urls = Append(@, base_url(fn_in.endpoint))]
    /\ UNCHANGED <<callVars, fn_in>>

NextBaseUrl == BaseUrl

SpecBaseUrl == InitBaseUrl /\ [][NextBaseUrl]_vars

-----------------------------------------------------------------------------
(* SpecLive: get_json calls under the timeout set by HttpClient::new *)

\* statuses answered in SpecLive: one that is a success, one that is not
LiveStatuses == {200, 404}

NextLive ==
    \/ \E c \in Calls : get_json_send(c, [tag |-> "ApiWebV1"], <<"a">>)
    \/ \E c \in Calls, cause \in TransportCauses : send_error(c, cause)
    \/ \E c \in Calls, s \in LiveStatuses : receive_response(c, s)
    \/ \E c \in Calls, b \in Bodies : json_body(c, b)
    \/ \E c \in Calls : json_read_error(c)

\* Client::builder().timeout(config.timeout): the timer runs from the start
\* of the request until the body is read, so a call that waits for the
\* response fails with a timeout unless something else ends the wait, and a
\* call that waits for the body fails likewise
TimeoutFires ==
    \A c \in Calls :
        /\ WF_vars(send_error(c, "timeout"))
        /\ WF_vars(json_read_error(c))

SpecLive == Init /\ [][NextLive]_vars /\ TimeoutFires

-----------------------------------------------------------------------------
(* Client: the paths its methods request *)

\* the decimal text of a signed integer, as "{}" writes an i32 or an i64
i32_to_string(n) == IF n < 0 THEN <<"-">> \o ToDecimal(-n) ELSE ToDecimal(n)

\* Client::resolve_date; date is an Option<GameDate>, GameDate::default() is Now
resolve_date(date) == IF date.kind = "None" THEN Now ELSE date.value

\* mutant: a missing date is left as Now instead of being resolved to today
resolve_date_to_today_keeps_now(date, today) ==
    IF date.kind = "None" THEN Now ELSE date.value

\* Client::resolve_date_to_today; GameDate::today() is Date(today)
resolve_date_to_today(date, today) ==
    IF date.kind = "None" THEN Date(today) ELSE date.value

\* the get_json call a Client method makes first: its endpoint and resource
Client_request(call, today) ==
    LET dated(prefix, gd) == prefix \o GameDate_to_api_string(gd)
        path ==
          CASE call.op = "teams" ->
                 dated(<<"s","t","a","n","d","i","n","g","s","/">>, resolve_date(call.date))
            [] call.op = "current_league_standings" ->
                 dated(<<"s","t","a","n","d","i","n","g","s","/">>, Now)
            [] call.op = "league_standings_for_date" ->
                 dated(<<"s","t","a","n","d","i","n","g","s","/">>, call.date.value)
            [] call.op = "daily_schedule" ->
                 dated(<<"s","c","h","e","d","u","l","e","/">>, resolve_date_to_today(call.date, today))
            [] call.op = "weekly_schedule" ->
                 dated(<<"s","c","h","e","d","u","l","e","/">>, resolve_date(call.date))
            [] call.op = "daily_scores" ->
                 dated(<<"s","c","o","r","e","/">>, resolve_date_to_today(call.date, today))
            [] call.op = "team_weekly_schedule" ->
                 dated(<<"c","l","u","b","-","s","c","h","e","d","u","l","e","/">> \o call.team_abbr \o <<"/","w","e","e","k","/">>,
                       resolve_date_to_today(call.date, today))
            [] call.op = "player_game_log" ->
                 <<"p","l","a","y","e","r","/">> \o i32_to_string(call.player_id) \o <<"/","g","a","m","e","-","l","o","g","/">>
                     \o i32_to_string(call.season) \o <<Slash>>
                     \o i32_to_string(call.game_type)
            [] call.op = "club_stats" ->
                 <<"c","l","u","b","-","s","t","a","t","s","/">> \o call.team_abbr \o <<Slash>>
                     \o i32_to_string(call.season) \o <<Slash>>
                     \o i32_to_string(call.game_type)
            [] call.op = "roster_season" ->
                 <<"r","o","s","t","e","r","/">> \o call.team_abbr \o <<Slash>>
                     \o i32_to_string(call.season)
    IN  [kind |-> "Request", endpoint |-> [tag |-> "ApiWebV1"],
         resource |-> path]

-----------------------------------------------------------------------------
(* SpecClient: the Client methods that take a date or a season *)

\* the Option<GameDate> arguments: None, Some(Now) and Some of a date; the
\* last date has a year of five digits
OptionalDates ==
    { [kind |-> "None"], [kind |-> "Some", value |-> Now] }
        \cup { [kind |-> "Some", value |-> Date(d)] :
                   d \in {Ymd(2024, 1, 15), Ymd(2024, 10, 19), Ymd(999, 2, 28),
                          Ymd(10000, 1, 1)} }

\* the arguments of the methods: a team, a player, seasons as the caller
\* may write an i32, and the two game types
ClientCalls ==
    [op : {"teams", "daily_schedule", "weekly_schedule", "daily_scores",
           "resolve_date", "resolve_date_to_today"},
     date : OptionalDates]
    \cup [op : {"league_standings_for_date"},
          date : OptionalDates \ {[kind |-> "None"]}]
    \cup [op : {"current_league_standings"}]
    \cup [op : {"team_weekly_schedule"}, team_abbr : {<<"M","T","L">>}, date : OptionalDates]
    \cup [op : {"player_game_log"}, player_id : {8478402},
          season : {20232024, 20242025, 2024, 0, -1}, game_type : {2, 3}]
    \cup [op : {"club_stats"}, team_abbr : {<<"M","T","L">>},
          season : {20232024, 20242025, 2024, 0, -1}, game_type : {2, 3}]
    \cup [op : {"roster_season"}, team_abbr : {<<"M","T","L">>},
          season : {20232024, 20242025, 2024, 0, -1}]

InitClient ==
    /\ InitCalls
    /\ fn_in \in {[call |-> call, today |-> today, op |-> "client"] :
                      call \in ClientCalls, today \in Todays}
    /\ fn_out = Pending

\* client.resolve_date(date) and client.resolve_date_to_today(date)
ResolveDate ==
    /\ fn_in.op = "client"
    /\ fn_in.call.op \in {"resolve_date", "resolve_date_to_today"}
    /\ fn_out = Pending
    /\ fn_out' = [kind |-> "Resolved",
                  date |-> IF fn_in.call.op = "resolve_date"
                           THEN resolve_date(fn_in.call.date)
                           ELSE resolve_date_to_today(fn_in.call.date,
                                                      fn_in.today)]
    /\ UNCHANGED <<callVars, fn_in>>

\* a Client method, up to the get_json call it makes
SendRequest ==
    /\ fn_in.op = "client"
    /\ fn_in.call.op \notin {"resolve_date", "resolve_date_to_today"}
    /\ fn_out = Pending
    /\ fn_out' = Client_request(fn_in.call, fn_in.today)
    /\ UNCHANGED <<callVars, fn_in>>

NextClient ==
    \/ ResolveDate
    \/ SendRequest

SpecClient == InitClient /\ [][NextClient]_vars

-----------------------------------------------------------------------------
(* Client::extract_daily_schedule and Client::daily_schedule *)

\* mutant: the games of the last matching day are taken
extract_daily_schedule_last_match(schedule_data, date_string) ==
    LET week == schedule_data.game_week
        matches == {i \in 1..Len(week) : week[i].date = date_string}
        games == IF matches = {} THEN <<>>
                 ELSE week[CHOOSE i \in matches : \A j \in matches : j <= i].games
    IN  [next_start_date |-> [kind |-> "Some",
                              value |-> schedule_data.next_start_date],
         previous_start_date |-> [kind |-> "Some",
                                  value |-> schedule_data.previous_start_date],
         date |-> date_string,
         number_of_games |-> Len(games),
         games |-> games]

\* Client::extract_daily_schedule: .iter().find(..).map(..).unwrap_or_default()
extract_daily_schedule(schedule_data, date_string) ==
    LET week == schedule_data.game_week
        matches == {i \in 1..Len(week) : week[i].date = date_string}
        games == IF matches = {} THEN <<>>
                 ELSE week[CHOOSE i \in matches : \A j \in matches : i <= j].games
    IN  [next_start_date |-> [kind |-> "Some",
                              value |-> schedule_data.next_start_date],
         previous_start_date |-> [kind |-> "Some",
                                  value |-> schedule_data.previous_start_date],
         date |-> date_string,
         number_of_games |-> Len(games),
         games |-> games]

\* Client::daily_schedule: the request it makes and what it returns when
\* get_json answers with answer, an error or a decoded week
daily_schedule(date, today, answer) ==
    LET date_string == GameDate_to_api_string(resolve_date_to_today(date, today))
        request == Client_request([op |-> "daily_schedule", date |-> date],
                                  today)
    IN  [kind |-> "Returned", request |-> request,
         result |-> IF answer.kind = "Ok"
                    THEN Ok(extract_daily_schedule(answer.value, date_string))
                    ELSE answer]

-----------------------------------------------------------------------------
(* SpecSchedule: daily schedules extracted from weekly ones *)

\* longest game_week enumerated
MaxDays == 2

\* the days of a week: two dates, each with no game, one game or two
GameDays ==
    [date : {Str10("2","0","2","4","-","0","1","-","0","8"),
             Str10("2","0","2","4","-","1","2","-","3","0")},
     games : {<<>>, <<2023020001>>, <<2023020002, 2023020003>>,
              <<2023020004>>}]

\* the weekly schedules a server may answer with; a date may occur on more
\* than one day
Weeks ==
    [next_start_date : {Str10("2","0","2","4","-","0","1","-","1","5")},
     previous_start_date : {Str10("2","0","2","4","-","0","1","-","0","1")},
     game_week : UNION {[1..n -> GameDays] : n \in 0..MaxDays}]

InitSchedule ==
    /\ InitCalls
    /\ fn_in \in
          [op : {"extract_daily_schedule"}, week : Weeks,
           date_string : {Str10("2","0","2","4","-","0","1","-","0","8"),
                          Str10("2","0","2","4","-","0","1","-","0","9"),
                          NowToken}]
          \cup [op : {"daily_schedule"},
                date : {[kind |-> "None"], [kind |-> "Some", value |-> Now],
                        [kind |-> "Some", value |-> Date(Ymd(2024, 1, 8))]},
                today : Todays,
                answer : {Ok(w) : w \in Weeks}
                             \cup {error_from_status(404, <<"s">>),
                                   RequestError("timeout")}]
    /\ fn_out = Pending

\* client.extract_daily_schedule(week, date_string)
ExtractDailySchedule ==
    /\ fn_in.op = "extract_daily_schedule"
    /\ fn_out = Pending
    /\ fn_out' = [kind |-> "Extracted",
                  schedule |-> extract_daily_schedule(fn_in.week,
                                                      fn_in.date_string)]
    /\ UNCHANGED <<callVars, fn_in>>

\* client.daily_schedule(date).await
DailySchedule ==
    /\ fn_in.op = "daily_schedule"
    /\ fn_out = Pending
    /\ fn_out' = daily_schedule(fn_in.date, fn_in.today, fn_in.answer)
    /\ UNCHANGED <<callVars, fn_in>>

NextSchedule ==
    \/ ExtractDailySchedule
    \/ DailySchedule

SpecSchedule == InitSchedule /\ [][NextSchedule]_vars

-----------------------------------------------------------------------------
(* SpecChain: add_days called twice in a row, and once with the sum *)

\* the resolved dates add_days is chained on
ChainDates ==
    {Date(d) : d \in {Ymd(2024, 1, 1), Ymd(2024, 2, 28), Ymd(2023, 12, 31),
                      Ymd(MinYear, 1, 1), Ymd(MaxYear, 12, 31)}}

InitChain ==
    /\ InitCalls
    /\ fn_in \in [op : {"add_days_chain"}, gd : ChainDates, a : Offsets,
                  b : Offsets, today : Todays]
    /\ fn_out = Pending

\* gd.add_days(a).add_days(b) next to gd.add_days(a + b); the second call of
\* the chain is not reached when the first one panics
ChainAddDays ==
    /\ fn_in.op = "add_days_chain"
    /\ fn_out = Pending
    /\ LET first == GameDate_add_days(fn_in.gd, fn_in.a, fn_in.today)
       IN  fn_out' =
               [kind |-> "Chained",
                chained |-> IF first.kind = "Panic" THEN first
                            ELSE GameDate_add_days(first, fn_in.b, fn_in.today),
                single |-> GameDate_add_days(fn_in.gd, fn_in.a + fn_in.b,
                                             fn_in.today)]
    /\ UNCHANGED <<callVars, fn_in>>

NextChain == ChainAddDays

SpecChain == InitChain /\ [][NextChain]_vars

-----------------------------------------------------------------------------
(* Client::league_standings_for_season *)

\* NHLApiError::Other(String)
Other(message) == [kind |-> "Other", message |-> message]

\* mutant: the last manifest entry with the id is taken
find_season_last(seasons, season_id) ==
    LET matches == {i \in 1..Len(seasons) : seasons[i].id = season_id}
    IN  IF matches = {} THEN [kind |-> "None"]
        ELSE [kind |-> "Some",
              value |-> seasons[CHOOSE i \in matches :
                                    \A j \in matches : j <= i]]

\* seasons.iter().find(|s| s.id == season_id)
find_season(seasons, season_id) ==
    LET matches == {i \in 1..Len(seasons) : seasons[i].id = season_id}
    IN  IF matches = {} THEN [kind |-> "None"]
        ELSE [kind |-> "Some",
              value |-> seasons[CHOOSE i \in matches :
                                    \A j \in matches : i <= j]]

-----------------------------------------------------------------------------
(* SpecStandings: one call of league_standings_for_season, request by      *)
(* request. fn_out holds the position of the call, the resources it has    *)
(* requested in order, the answers it got and, at the end, its result.     *)

\* longest season manifest enumerated
MaxSeasons == 2

\* manifest entries: two season ids, each with either of two end dates
SeasonInfos ==
    [id : {20232024, 20242025},
     standings_start : {Str10("2","0","2","3","-","1","0","-","1","0")},
     standings_end : {Str10("2","0","2","4","-","0","4","-","1","8"),
                      Str10("2","0","2","5","-","0","4","-","1","7")}]

\* answers of get_json: either of two errors, or the decoded value
AnswersOf(values) ==
    {Ok(v) : v \in values}
        \cup {error_from_status(500, <<"s">>), RequestError("timeout")}

InitStandings ==
    /\ InitCalls
    /\ fn_in \in [op : {"league_standings_for_season"},
                  season_id : {20232024, 20242025, 1}]
    /\ fn_out = Pending

\* self.season_standing_manifest(): get_json(ApiWebV1, "standings-season")
RequestManifest ==
    /\ fn_in.op = "league_standings_for_season"
    /\ fn_out = Pending
    /\ fn_out' = [kind |-> "Running", at |-> "manifest_requested",
                  requests |-> <<<<"s","t","a","n","d","i","n","g","s","-","s","e","a","s","o","n">>>>]
    /\ UNCHANGED <<callVars, fn_in>>

\* the manifest request is answered: `?` returns its error; otherwise the
\* entry is looked up and either the Other error is returned or
\* fetch_standings_data(standings_end) issues the standings request
ManifestAnswered ==
    /\ fn_out.kind = "Running" /\ fn_out.at = "manifest_requested"
    /\ \E answer \in AnswersOf(UNION {[1..n -> SeasonInfos] : n \in 0..MaxSeasons}) :
           LET season_data == find_season(answer.value, fn_in.season_id)
               heard == [requests |-> fn_out.requests, manifest |-> answer]
           IN  fn_out' =
                 IF answer.kind # "Ok"
                 THEN heard @@ [kind |-> "Returned", result |-> answer]
                 ELSE IF season_data.kind = "None"
                      THEN heard @@
                           [kind |-> "Returned",
                            result |-> Other(<<"I","n","v","a","l","i","d"," ","S","e","a","s","o","n"," ","I","d"," ">>
                                             \o i32_to_string(fn_in.season_id))]
                      ELSE [kind |-> "Running", at |-> "standings_requested",
                            manifest |-> answer,
                            requests |->
                                Append(fn_out.requests,
                                       <<"s","t","a","n","d","i","n","g","s","/">>
                                           \o season_data.value.standings_end)]
    /\ UNCHANGED <<callVars, fn_in>>

\* the standings request is answered: its standings or its error is returned
StandingsAnswered ==
    /\ fn_out.kind = "Running" /\ fn_out.at = "standings_requested"
    /\ \E answer \in AnswersOf({<<>>, <<"MTL", "TOR">>}) :
           fn_out' = [kind |-> "Returned", requests |-> fn_out.requests,
                      manifest |-> fn_out.manifest, standings |-> answer,
                      result |-> answer]
    /\ UNCHANGED <<callVars, fn_in>>

NextStandings ==
    \/ RequestManifest
    \/ ManifestAnswered
    \/ StandingsAnswered

SpecStandings == InitStandings /\ [][NextStandings]_vars

-----------------------------------------------------------------------------
(* SpecSeasonTrip: Season formatted then parsed, and parsed then formatted *)

InitSeasonTrip ==
    /\ InitCalls
    /\ fn_in \in
          [op : {"season_format_parse"}, start_year : 0..U16Max, build : Builds]
          \cup [op : {"season_parse_format"}, s : SeasonStrings, build : Builds]
    /\ fn_out = Pending

\* Season::from_str(&season.to_api_string()); from_str is not reached when
\* to_api_string panics
FormatThenParse ==
    /\ fn_in.op = "season_format_parse"
    /\ fn_out = Pending
    /\ LET api == Season_to_api_string(Season(fn_in.start_year), fn_in.build)
       IN  fn_out' = [kind |-> "SeasonTrip", api |-> api,
                      parsed |-> IF api.kind = "Panic" THEN api
                                 ELSE Season_from_str(api.text, fn_in.build)]
    /\ UNCHANGED <<callVars, fn_in>>

\* Season::from_str(s).map(|season| season.to_api_string())
ParseThenFormat ==
    /\ fn_in.op = "season_parse_format"
    /\ fn_out = Pending
    /\ LET parsed == Season_from_str(fn_in.s, fn_in.build)
       IN  fn_out' = [kind |-> "SeasonTrip", parsed |-> parsed,
                      api |-> IF parsed.kind # "Some" THEN parsed
                              ELSE Season_to_api_string(parsed.season,
                                                        fn_in.build)]
    /\ UNCHANGED <<callVars, fn_in>>

NextSeasonTrip ==
    \/ FormatThenParse
    \/ ParseThenFormat

SpecSeasonTrip == InitSeasonTrip /\ [][NextSeasonTrip]_vars

-----------------------------------------------------------------------------
(* Properties of error_from_status, checked under SpecClassify *)

Classified == fn_in.op = "error_from_status" /\ fn_out.kind # "Pending"

\* the kind the documentation gives for a status code
DocumentedKind(s) ==
    IF s = 404 THEN "ResourceNotFound"
    ELSE IF s = 429 THEN "RateLimitExceeded"
    ELSE IF s = 400 THEN "BadRequest"
    ELSE IF s = 401 THEN "Unauthorized"
    ELSE IF s >= 500 /\ s <= 599 THEN "ServerError"
    ELSE "ApiError"

\* C1: for every u16 status code, error_from_status returns the documented
\* kind: 404 ResourceNotFound, 429 RateLimitExceeded, 400 BadRequest,
\* 401 Unauthorized, 500..599 ServerError, anything else the generic ApiError.
C1_DocumentedKind ==
    Classified => fn_out.kind = DocumentedKind(fn_in.status_code)

\* C1 witness: 599, the last status of the ServerError range, was classified
C1_Witness ==
    /\ Classified
    /\ fn_in.status_code = 599
    /\ fn_out.kind = "ServerError"

\* C7: the error returned by error_from_status carries the status code it
\* was given, unchanged, in every variant.
C7_StatusCodePreserved ==
    Classified => fn_out.status_code = fn_in.status_code

\* C7 witness: the out-of-range status 600 was classified as the generic kind
\* and is still 600 in the error
C7_Witness ==
    /\ Classified
    /\ fn_in.status_code = 600
    /\ fn_out.kind = "ApiError"
    /\ fn_out.status_code = 600

\* C8: the message of the error returned by error_from_status contains
\* "Request to <id> failed", and so the request identifier, in all six
\* variants.
C8_MessageEmbedsId ==
    Classified =>
        /\ Contains(fn_out.message, fn_in.url)
        /\ Contains(fn_out.message, RequestTo \o fn_in.url \o Failed)
        /\ fn_out.kind = "ApiError" =>
               SubSeq(fn_out.message, 1, Len(UnexpectedError)) = UnexpectedError

\* C8 witness: a generic error whose message is longer than the plain
\* "Request to <id> failed" and still holds the identifier
C8_Witness ==
    /\ Classified
    /\ fn_out.kind = "ApiError"
    /\ fn_in.url = <<Slash, "b">>
    /\ Len(fn_out.message) > Len(RequestTo) + Len(fn_in.url) + Len(Failed)
    /\ Contains(fn_out.message, fn_in.url)

-----------------------------------------------------------------------------
(* Properties of get_json, checked under Spec *)

GotNon2xx(c) ==
    /\ response[c].received
    /\ ~(response[c].status >= 200 /\ response[c].status <= 299)

Got2xx(c) ==
    /\ response[c].received
    /\ response[c].status >= 200
    /\ response[c].status <= 299

DecodeFailed(c) == Got2xx(c) /\ decoded[c] /\ body[c] # "valid"

TransportFailed(c) == pc[c] = "done" /\ ~response[c].received

\* C2: once a response with a non-2xx status is received, the call has
\* returned the error error_from_status yields for that status, and the body
\* was not read or decoded.
C2_StatusErrorBeforeDecode ==
    \A c \in Calls :
        GotNon2xx(c) =>
            /\ pc[c] = "done"
            /\ result[c] = error_from_status(response[c].status, resource[c])
            /\ result[c].kind \in StatusKinds
            /\ ~decoded[c]
            /\ body[c] = "unread"

\* C2 witness: a 404 was received and the call ended in ResourceNotFound
C2_Witness ==
    \E c \in Calls :
        /\ GotNon2xx(c)
        /\ response[c].status = 404
        /\ pc[c] = "done"
        /\ result[c].kind = "ResourceNotFound"
        /\ ~decoded[c]

\* C3: when the body of a 2xx response does not decode as T, the call
\* returns an error and never a success value.
C3_DecodeFailureIsError ==
    \A c \in Calls :
        DecodeFailed(c) =>
            /\ pc[c] = "done"
            /\ IsErr(result[c])
            /\ result[c].kind # "Ok"

\* C3 witness: a 200 whose body misses a required field ended in an error
C3_Witness ==
    \E c \in Calls :
        /\ DecodeFailed(c)
        /\ response[c].status = 200
        /\ body[c] = "missing_field"
        /\ IsErr(result[c])

\* C4: the error returned for a body-decode failure on a 2xx response is the
\* JSON-parsing variant, a kind other than the one returned for a transport
\* failure.
C4_DecodeFailureIsJsonError ==
    \A c \in Calls :
        DecodeFailed(c) =>
            /\ result[c].kind = "JsonError"
            /\ \A d \in Calls :
                   TransportFailed(d) => result[d].kind # result[c].kind

\* C5: when sending fails before any response is obtained, the call returns
\* the RequestError kind, the status classifier is not invoked and no
\* status-derived variant is returned.
C5_TransportFailureNotClassified ==
    \A c \in Calls :
        TransportFailed(c) =>
            /\ result[c].kind = "RequestError"
            /\ result[c].cause \in TransportCauses
            /\ ~classified[c]
            /\ result[c].kind \notin StatusKinds

\* C5 witness: a call ended on a connection failure with no response
C5_Witness ==
    \E c \in Calls :
        /\ TransportFailed(c)
        /\ attempts[c] = 1
        /\ result[c] = RequestError("connect")

\* C6: every invocation of get_json issues exactly one HTTP GET, whatever its
\* outcome; no failure causes a second attempt, and a call made with the
\* arguments of an earlier call issues its own GET.
C6_ExactlyOneAttempt ==
    \A c \in Calls :
        /\ attempts[c] = IF pc[c] = "idle" THEN 0 ELSE 1
        /\ pc[c] = "done" => attempts[c] = 1

\* C6 witness: two calls with the same arguments have both ended, one in a
\* timeout and one in a value, each after one GET
C6_Witness ==
    \E c, d \in Calls :
        /\ c # d
        /\ pc[c] = "done" /\ pc[d] = "done"
        /\ endpoint[c] = endpoint[d] /\ resource[c] = resource[d]
        /\ result[c] = RequestError("timeout")
        /\ result[d].kind = "Ok"
        /\ attempts[c] = 1 /\ attempts[d] = 1

-----------------------------------------------------------------------------
(* Properties of the URL join, checked under SpecJoin *)

Joined == fn_in.op = "full_url" /\ fn_out.kind = "Url"

LastIsSlash(s) == s # <<>> /\ s[Len(s)] = "/"
FirstIsSlash(s) == s # <<>> /\ Head(s) = "/"
DropLastSlash(s) == IF LastIsSlash(s) THEN SubSeq(s, 1, Len(s) - 1) ELSE s
DropFirstSlash(s) == IF FirstIsSlash(s) THEN SubSeq(s, 2, Len(s)) ELSE s

\* C9: the full URL is the base without its trailing slash, one slash, and
\* the resource without its leading slash: when both carry a slash one is
\* dropped, when neither does one is inserted, when exactly one does the two
\* are concatenated as they are.
C9_OneSeparatingSlash ==
    Joined =>
        LET base == base_url(fn_in.endpoint)
            res == fn_in.resource
            url == fn_out.url
        IN  /\ url = DropLastSlash(base) \o <<"/">> \o DropFirstSlash(res)
            /\ LastIsSlash(base) /\ FirstIsSlash(res) =>
                   Len(url) = Len(base) + Len(res) - 1
            /\ ~LastIsSlash(base) /\ ~FirstIsSlash(res) =>
                   Len(url) = Len(base) + Len(res) + 1
            /\ LastIsSlash(base) # FirstIsSlash(res) => url = base \o res

\* C9 witness: a production base, which ends with a slash, was joined with a
\* resource that starts with one
C9_Witness ==
    /\ Joined
    /\ fn_in.endpoint.tag = "ApiWebV1"
    /\ fn_in.resource = <<"/", "a">>
    /\ Len(fn_out.url) = Len(base_url(fn_in.endpoint)) + 1

\* C10 as stated: joining any base URL, with or without a trailing slash,
\* with the empty resource yields the base URL unchanged.
C10_EmptyResourceKeepsBase ==
    Joined /\ fn_in.resource = <<>> => fn_out.url = base_url(fn_in.endpoint)

\* C10 amended: joining a base URL that ends with a slash with the empty
\* resource yields the base URL unchanged; for a base URL without a trailing
\* slash it yields the base URL followed by one slash.
C10_EmptyResourceAmended ==
    Joined /\ fn_in.resource = <<>> =>
        LET base == base_url(fn_in.endpoint)
        IN  fn_out.url = IF LastIsSlash(base) THEN base ELSE base \o <<"/">>

\* C10 witness: a custom base without a trailing slash was joined with the
\* empty resource and got one slash appended
C10_Witness ==
    /\ Joined
    /\ fn_in.resource = <<>>
    /\ fn_in.endpoint = Custom(<<"h">>)
    /\ fn_out.url = <<"h", "/">>

-----------------------------------------------------------------------------
(* Properties of GameDate, checked under SpecDate *)

Formatted == fn_in.op = "to_api_string" /\ fn_out.kind = "Formatted"
Parsed == fn_in.op = "from_str" /\ fn_out.kind # "Pending"
RoundTripped == fn_in.op = "round_trip" /\ fn_out.kind = "RoundTrip"
Added == fn_in.op = "add_days" /\ fn_out.kind # "Pending"

AllDigits(text) == \A i \in 1..Len(text) : text[i] \in
    {"0", "1", "2", "3", "4", "5", "6", "7", "8", "9"}

\* text is the 10-character zero-padded YYYY-MM-DD form of date
IsIsoTextOf(text, date) ==
    /\ Len(text) = 10
    /\ text[5] = "-" /\ text[8] = "-"
    /\ AllDigits(SubSeq(text, 1, 4))
    /\ AllDigits(SubSeq(text, 6, 7))
    /\ AllDigits(SubSeq(text, 9, 10))
    /\ DecimalValue(SubSeq(text, 1, 4)) = date.year
    /\ DecimalValue(SubSeq(text, 6, 7)) = date.month
    /\ DecimalValue(SubSeq(text, 9, 10)) = date.day

\* text is the YYYY-MM-DD form of some valid calendar date
IsIsoDateText(text) ==
    /\ Len(text) = 10
    /\ text[5] = "-" /\ text[8] = "-"
    /\ AllDigits(SubSeq(text, 1, 4))
    /\ AllDigits(SubSeq(text, 6, 7))
    /\ AllDigits(SubSeq(text, 9, 10))
    /\ LET y == DecimalValue(SubSeq(text, 1, 4))
           m == DecimalValue(SubSeq(text, 6, 7))
           d == DecimalValue(SubSeq(text, 9, 10))
       IN  /\ m \in 1..12
           /\ d >= 1
           /\ d <= IF m = 2
                   THEN (IF y % 4 = 0 /\ (y % 100 # 0 \/ y % 400 = 0)
                         THEN 29 ELSE 28)
                   ELSE IF m \in {4, 6, 9, 11} THEN 30 ELSE 31

\* days before the first day of month m in year y
RECURSIVE DaysBeforeMonth(_, _)
DaysBeforeMonth(y, m) ==
    IF m = 1 THEN 0 ELSE DaysBeforeMonth(y, m - 1) + DaysInMonth(y, m - 1)

\* the ordinal of a date counted from 0001-01-01 as day 1, by whole years
\* and whole months
DayNumber(date) ==
    LET p == date.year - 1
    IN  365 * p + p \div 4 - p \div 100 + p \div 400
            + DaysBeforeMonth(date.year, date.month) + date.day

\* C11: parsing the API string of a GameDate gives back that GameDate, for
\* Now and for every valid calendar date.
C11_ParseFormatRoundTrip ==
    RoundTripped => fn_out.parsed = fn_in.gd

\* C11 witness: a leap day was formatted and parsed back to itself
C11_Witness ==
    /\ RoundTripped
    /\ fn_in.gd = Date(Ymd(2024, 2, 29))
    /\ fn_out.text = Str10("2","0","2","4","-","0","2","-","2","9")
    /\ fn_out.parsed = fn_in.gd

C13_RejectsAllButIsoDates ==
    Parsed /\ fn_in.s # <<"n", "o", "w">> /\ ~IsIsoDateText(fn_in.s) =>
        fn_out.kind = "ParseError"

\* C14: add_days produces a Date for every receiver and every offset, and
\* for the receiver Now it is the date that many days from today.
C14_AlwaysResolved ==
    Added =>
        /\ fn_out.kind = "Date"
        /\ fn_in.gd.kind = "Now" =>
               DayNumber(fn_out.date) = DayNumber(fn_in.today) + fn_in.days

\* C15 as stated: add_days(x, 0) == x for every GameDate x, Now included.
C15_ZeroIsIdentity ==
    Added /\ fn_in.days = 0 => fn_out = fn_in.gd

\* C15 amended: add_days(Date(d), 0) == Date(d) for every date d; for the
\* receiver Now, add_days(Now, 0) is Date(today), which is not equal to Now.
C15_ZeroIsIdentityOnDates ==
    Added /\ fn_in.days = 0 =>
        /\ fn_in.gd.kind = "Date" => fn_out = fn_in.gd
        /\ fn_in.gd.kind = "Now" =>
               fn_out = [kind |-> "Date", date |-> fn_in.today]

\* C15 witness: add_days(Now, 0) returned the date of today
C15_Witness ==
    /\ Added
    /\ fn_in.days = 0
    /\ fn_in.gd.kind = "Now"
    /\ fn_out.kind = "Date"
    /\ fn_out.date = fn_in.today

\* C16: for every resolved date d and offset n, add_days(Date(d), n) is the
\* date exactly n days from d under proleptic Gregorian rules.
C16_ExactlyNDaysAway ==
    Added /\ fn_in.gd.kind = "Date" =>
        /\ fn_out.kind = "Date"
        /\ fn_out.date.month \in 1..12
        /\ fn_out.date.day \in 1..DaysInMonth(fn_out.date.year, fn_out.date.month)
        /\ DayNumber(fn_out.date) = DayNumber(fn_in.gd.date) + fn_in.days

\* C17: add_days is total: it returns a GameDate for every receiver and
\* every offset and never aborts.
C17_NeverAborts ==
    Added => fn_out.kind # "Panic"

\* Whenever add_days returns, what it returns is the Date exactly that many
\* days from the resolved receiver (the part of C14 and C16 that is
\* independent of C17), with the examples of the tests.
AddDays_ExactWhenReturned ==
    Added /\ fn_out.kind # "Panic" =>
        LET from == IF fn_in.gd.kind = "Now" THEN fn_in.today ELSE fn_in.gd.date
        IN  /\ fn_out.kind = "Date"
            /\ fn_out.date.month \in 1..12
            /\ fn_out.date.day \in 1..DaysInMonth(fn_out.date.year, fn_out.date.month)
            /\ DayNumber(fn_out.date) = DayNumber(from) + fn_in.days
            /\ from = Ymd(2024, 2, 28) /\ fn_in.days = 1 =>
                   fn_out.date = Ymd(2024, 2, 29)
            /\ from = Ymd(2023, 2, 28) /\ fn_in.days = 1 =>
                   fn_out.date = Ymd(2023, 3, 1)
            /\ from = Ymd(2024, 12, 30) /\ fn_in.days = 5 =>
                   fn_out.date = Ymd(2025, 1, 4)
            /\ from = Ymd(2024, 1, 1) /\ fn_in.days = 366 =>
                   fn_out.date = Ymd(2025, 1, 1)
            /\ from = Ymd(2024, 1, 1) /\ fn_in.days = -365 =>
                   fn_out.date = Ymd(2023, 1, 1)

-----------------------------------------------------------------------------
(* Properties of Season, checked under SpecSeason *)

SeasonFormatted ==
    fn_in.op = "season_to_api_string" /\ fn_out.kind = "SeasonFormatted"

SeasonParsed == fn_in.op = "season_from_str" /\ fn_out.kind # "Pending"

\* s is 8 ASCII digits whose last four, as a number, are the first four
\* plus one
IsConsecutiveYearsText(s) ==
    /\ Len(s) = 8
    /\ AllDigits(s)
    /\ DecimalValue(SubSeq(s, 5, 8)) = DecimalValue(SubSeq(s, 1, 4)) + 1

\* C18: for every u16 start_year, end_year() is start_year + 1 and
\* to_api_string() is the decimal text of start_year followed by the decimal
\* text of start_year + 1; Display agrees with to_api_string.
C18_EndYearIsStartPlusOne ==
    SeasonFormatted =>
        /\ fn_out.end_year.kind = "U16"
        /\ fn_out.end_year.value = fn_in.start_year + 1
        /\ fn_out.api.kind = "String"
        /\ fn_out.api.text =
               ToDecimal(fn_in.start_year) \o ToDecimal(fn_in.start_year + 1)
        /\ fn_out.display = fn_out.api

\* C19: Season::from_str(s) returns a Season if and only if s is exactly 8
\* ASCII digits whose last 4 equal the first 4 plus 1, with start_year the
\* first 4 digits; every other string returns none.
C19_SomeIffEightConsecutiveDigits ==
    SeasonParsed =>
        IF IsConsecutiveYearsText(fn_in.s)
        THEN /\ fn_out.kind = "Some"
             /\ fn_out.season.start_year = DecimalValue(SubSeq(fn_in.s, 1, 4))
        ELSE fn_out.kind = "None"

\* C20: Season::from_str is total: every string, 8-byte strings with
\* multi-byte characters included, yields a Season or none, never an abort.
C20_FromStrNeverAborts ==
    SeasonParsed => fn_out.kind \in {"Some", "None"}

\* Season::from_str accepts every string of 8 ASCII digits with consecutive
\* years and returns its first four digits (the direction of C19 that holds)
SeasonFromStr_AcceptsConsecutive ==
    SeasonParsed /\ IsConsecutiveYearsText(fn_in.s) =>
        /\ fn_out.kind = "Some"
        /\ fn_out.season.start_year = DecimalValue(SubSeq(fn_in.s, 1, 4))

-----------------------------------------------------------------------------
(* Properties of Season::current, checked under SpecCurrent *)

CurrentTaken == fn_in.op = "season_current" /\ fn_out.kind # "Pending"

\* C21: for a local date of year Y and month M, Season::current returns the
\* season of start_year Y - 1 when M < 10 and of start_year Y when M >= 10.
C21_SeasonStartsInOctober ==
    CurrentTaken =>
        /\ fn_out.kind = "Season"
        /\ fn_in.now.month < 10 =>
               fn_out.season.start_year = fn_in.now.year - 1
        /\ fn_in.now.month >= 10 =>
               fn_out.season.start_year = fn_in.now.year

\* September 2024 is still season 2023, reached in the debug build
C21_Witness ==
    /\ CurrentTaken
    /\ fn_in.now.year = 2024 /\ fn_in.now.month = 9 /\ fn_in.build = "debug"
    /\ fn_out.kind = "Season" /\ fn_out.season.start_year = 2023

-----------------------------------------------------------------------------
(* Properties of Endpoint::base_url, checked under SpecBaseUrl *)

Https == <<"h","t","t","p","s",":","/","/">>

\* the base URL the specification documents for a production variant
DocumentedBaseUrl(tag) ==
    CASE tag = "ApiWebV1" ->
           Https \o <<"a","p","i","-","w","e","b",".","n","h","l","e",".",
                      "c","o","m","/","v","1","/">>
      [] tag = "ApiCore" ->
           Https \o <<"a","p","i",".","n","h","l","e",".","c","o","m","/">>
      [] tag = "ApiStats" ->
           Https \o <<"a","p","i",".","n","h","l","e",".","c","o","m","/",
                      "s","t","a","t","s","/","r","e","s","t","/">>
      [] tag = "SearchV1" ->
           Https \o <<"s","e","a","r","c","h",".","d","3",".","n","h","l",
                      "e",".","c","o","m","/","a","p","i","/","v","1","/">>

BaseUrlCalled == fn_in.op = "base_url" /\ fn_out.kind = "BaseUrls"

\* C22: every call of base_url on a production variant returns the one
\* documented URL, which is non-empty, absolute (it starts with https://)
\* and ends with a slash; on Custom(url) every call returns url unchanged.
C22_FixedBaseUrls ==
    BaseUrlCalled =>
        \A i \in 1..Len(fn_out.urls) :
            LET u == fn_out.urls[i]
            IN  IF fn_in.endpoint.tag = "Custom"
                THEN u = fn_in.endpoint.url
                ELSE /\ u = DocumentedBaseUrl(fn_in.endpoint.tag)
                     /\ u # <<>>
                     /\ Len(u) > Len(Https)
                     /\ SubSeq(u, 1, Len(Https)) = Https
                     /\ u[Len(u)] = Slash

\* the stats endpoint has been asked for its base URL more than once
C22_Witness ==
    /\ BaseUrlCalled
    /\ fn_in.endpoint.tag = "ApiStats"
    /\ Len(fn_out.urls) >= 2
    /\ fn_out.urls[2] = DocumentedBaseUrl("ApiStats")

-----------------------------------------------------------------------------
(* Properties of get_json under the client's timeout, checked under SpecLive *)

\* the four outcomes of a call, by what happened to it
OutcomesOf(c) ==
    { o \in {"decoded value", "status error", "transport error", "decode error"} :
        \/ o = "decoded value" /\ result[c].kind = "Ok"
        \/ o = "status error" /\ result[c].kind \in StatusKinds
        \/ o = "transport error"
             /\ result[c].kind = "RequestError" /\ ~response[c].received
        \/ o = "decode error"
             /\ result[c].kind = "RequestError" /\ response[c].received }

\* C23: every get_json call that was sent eventually resolves, to exactly
\* one of the four outcomes; a call that no response arrives for resolves to
\* the transport error.
C23_EventuallyResolves ==
    \A c \in Calls :
        /\ (pc[c] = "awaiting_response") ~> (pc[c] = "done")
        /\ [](pc[c] = "done" => Cardinality(OutcomesOf(c)) = 1)
        /\ (pc[c] = "awaiting_response") ~>
               (response[c].received \/ OutcomesOf(c) = {"transport error"})

\* the second call timed out with no response after the first call resolved
\* to a decoded value
C23_Witness ==
    /\ pc[1] = "done" /\ OutcomesOf(1) = {"decoded value"}
    /\ pc[2] = "done" /\ ~response[2].received
    /\ result[2] = RequestError("timeout")

-----------------------------------------------------------------------------
(* Properties of concurrent get_json calls, checked under Spec *)

\* the results a call with these arguments has when it runs alone and is
\* answered this way
ResultsAlone(e, r, resp, b) ==
    IF ~resp.received
    THEN {RequestError(cause) : cause \in TransportCauses}
    ELSE IF ~is_success(resp.status)
         THEN {error_from_status(resp.status, r)}
         ELSE IF b = "unread"
              THEN {RequestError("body")}
              ELSE {response_json(b)}

\* what a call may do next, whatever the other calls are doing
StepOf(c) ==
    \/ \E e \in CallEndpoints, r \in CallResources : get_json_send(c, e, r)
    \/ \E cause \in TransportCauses : send_error(c, cause)
    \/ \E s \in ResponseStatuses : receive_response(c, s)
    \/ \E b \in Bodies : json_body(c, b)
    \/ json_read_error(c)

\* C24: in every interleaving, the URL and the outcome of each call are
\* those of the call run alone with its own endpoint, resource and response,
\* and a call that has not resolved can always take its next step, whatever
\* the positions of the other calls.
C24_CallsAreIndependent ==
    \A c \in Calls :
        /\ pc[c] # "idle" =>
               /\ full_url[c] = build_full_url(base_url(endpoint[c]), resource[c])
               /\ attempts[c] = 1
        /\ pc[c] = "done" =>
               result[c] \in ResultsAlone(endpoint[c], resource[c],
                                          response[c], body[c])
        /\ pc[c] # "done" => ENABLED StepOf(c)

\* two calls for different resources in flight together: the second was
\* answered with a failure while the first still waits for its body
C24_Witness ==
    /\ pc[1] = "awaiting_body" /\ resource[1] = <<"a">>
    /\ pc[2] = "done" /\ resource[2] = <<Slash, "a">>
    /\ result[2] = error_from_status(404, <<Slash, "a">>)

-----------------------------------------------------------------------------
(* Properties of the Client's request paths, checked under SpecClient *)

Requested == fn_in.op = "client" /\ fn_out.kind = "Request"

DateResolved == fn_in.op = "client" /\ fn_out.kind = "Resolved"

\* the segments of a path: the texts between its slashes
RECURSIVE Segments(_)
Segments(path) ==
    IF \A i \in 1..Len(path) : path[i] # Slash THEN <<path>>
    ELSE LET k == CHOOSE i \in 1..Len(path) :
                      path[i] = Slash /\ \A j \in 1..(i - 1) : path[j] # Slash
         IN  <<SubSeq(path, 1, k - 1)>>
                 \o Segments(SubSeq(path, k + 1, Len(path)))

LastSegment(path) == Segments(path)[Len(Segments(path))]

DatedMethods ==
    {"teams", "current_league_standings", "league_standings_for_date",
     "daily_schedule", "weekly_schedule", "daily_scores",
     "team_weekly_schedule"}

\* the season segment of a request: the last one of roster/T/S, the third
\* of club-stats/T/S/G, the fourth of player/P/game-log/S/G
SeasonSegment(method, path) ==
    CASE method = "roster_season" -> Segments(path)[3]
      [] method = "club_stats" -> Segments(path)[3]
      [] method = "player_game_log" -> Segments(path)[4]

\* C25: in every request of a Client method with a date or season segment,
\* the date segment is the token "now" or a valid YYYY-MM-DD date and the
\* season segment has the YYYYYYYY shape of Season::to_api_string (eight
\* digits, the last four one more than the first four).
C25_SegmentsComeFromCalendar ==
    Requested =>
        IF fn_in.call.op \in DatedMethods
        THEN \/ LastSegment(fn_out.resource) = NowToken
             \/ IsIsoDateText(LastSegment(fn_out.resource))
        ELSE IsConsecutiveYearsText(
                 SeasonSegment(fn_in.call.op, fn_out.resource))

\* what does hold: a season given in the YYYYYYYY shape is sent as given,
\* and a date of a four-digit year is sent in the YYYY-MM-DD form
Client_SegmentsOfWellFormedArguments ==
    Requested =>
        IF fn_in.call.op \in DatedMethods
        THEN LET text == LastSegment(fn_out.resource)
             IN  \/ text = NowToken
                 \/ IsIsoDateText(text)
                 \/ /\ fn_in.call.date.kind = "Some"
                    /\ fn_in.call.date.value = Date(Ymd(10000, 1, 1))
        ELSE fn_in.call.season \in {20232024, 20242025} =>
                 IsConsecutiveYearsText(
                     SeasonSegment(fn_in.call.op, fn_out.resource))

-----------------------------------------------------------------------------
(* Default-date policy of the Client, checked under SpecClient *)

NoDateGiven == "date" \in DOMAIN fn_in.call /\ fn_in.call.date.kind = "None"

\* C26: resolve_date(None) is Now and resolve_date_to_today(None) is the
\* date of today; both return a supplied date unchanged. With no date,
\* daily_schedule, daily_scores and team_weekly_schedule send today's date
\* and never "now", and teams and weekly_schedule send "now".
C26_DefaultDatePolicy ==
    /\ DateResolved =>
           IF fn_in.call.date.kind = "Some"
           THEN fn_out.date = fn_in.call.date.value
           ELSE IF fn_in.call.op = "resolve_date"
                THEN /\ fn_out.date = Now
                     /\ GameDate_to_api_string(fn_out.date) = NowToken
                ELSE /\ fn_out.date = Date(fn_in.today)
                     /\ GameDate_to_api_string(fn_out.date) # NowToken
    /\ Requested /\ NoDateGiven =>
           LET text == LastSegment(fn_out.resource)
           IN  /\ fn_in.call.op \in {"daily_schedule", "daily_scores",
                                     "team_weekly_schedule"} =>
                      text # NowToken /\ IsIsoTextOf(text, fn_in.today)
               /\ fn_in.call.op \in {"teams", "weekly_schedule"} =>
                      text = NowToken

\* daily_schedule called with no date on 2024-12-30 asked for
\* schedule/2024-12-30
C26_Witness ==
    /\ Requested /\ NoDateGiven
    /\ fn_in.call.op = "daily_schedule"
    /\ fn_in.today = Ymd(2024, 12, 30)
    /\ Segments(fn_out.resource) =
           << <<"s","c","h","e","d","u","l","e">>,
              <<"2","0","2","4","-","1","2","-","3","0">> >>

-----------------------------------------------------------------------------
(* Properties of the daily schedule, checked under SpecSchedule *)

\* schedule is what the claim describes for week and date_string
IsDailyScheduleOf(schedule, week, date_string) ==
    LET days == week.game_week
    IN  /\ \/ \E i \in 1..Len(days) :
                  /\ days[i].date = date_string
                  /\ \A j \in 1..(i - 1) : days[j].date # date_string
                  /\ schedule.games = days[i].games
           \/ /\ \A i \in 1..Len(days) : days[i].date # date_string
              /\ schedule.games = <<>>
        /\ schedule.number_of_games = Len(schedule.games)
        /\ schedule.date = date_string
        /\ schedule.next_start_date.kind = "Some"
        /\ schedule.next_start_date.value = week.next_start_date
        /\ schedule.previous_start_date.kind = "Some"
        /\ schedule.previous_start_date.value = week.previous_start_date

\* C27: extract_daily_schedule returns the games of the first day of the
\* week dated date_string, or none; number_of_games is their count, date is
\* date_string and the start dates are the week's. daily_schedule returns
\* that for the date text it requested, so only games of a day so dated.
C27_GamesOfTheRequestedDay ==
    /\ fn_in.op = "extract_daily_schedule" /\ fn_out.kind = "Extracted" =>
           IsDailyScheduleOf(fn_out.schedule, fn_in.week, fn_in.date_string)
    /\ fn_in.op = "daily_schedule" /\ fn_out.kind = "Returned" =>
           IF fn_in.answer.kind = "Ok"
           THEN /\ fn_out.result.kind = "Ok"
                /\ IsDailyScheduleOf(fn_out.result.value, fn_in.answer.value,
                                     LastSegment(fn_out.request.resource))
           ELSE fn_out.result = fn_in.answer

\* a week that lists 2024-01-08 twice: the games of its first listing are
\* returned
C27_Witness ==
    /\ fn_in.op = "extract_daily_schedule" /\ fn_out.kind = "Extracted"
    /\ Len(fn_in.week.game_week) = 2
    /\ fn_in.week.game_week[1].date = fn_in.date_string
    /\ fn_in.week.game_week[2].date = fn_in.date_string
    /\ fn_in.week.game_week[1].games = <<2023020001>>
    /\ fn_in.week.game_week[2].games = <<2023020004>>
    /\ fn_out.schedule.games = <<2023020001>>
    /\ fn_out.schedule.number_of_games = 1

-----------------------------------------------------------------------------
(* Properties of chained add_days, checked under SpecChain *)

Chained == fn_in.op = "add_days_chain" /\ fn_out.kind = "Chained"

\* C28: for every date d and offsets a and b,
\* add_days(add_days(Date(d), a), b) = add_days(Date(d), a + b).
C28_ChainEqualsSum ==
    Chained => fn_out.chained = fn_out.single

\* what does hold: a chain whose two calls both return gives the date of
\* the single call with the summed offset
Chain_EqualsSumWhenBothReturn ==
    Chained /\ fn_out.chained.kind = "Date" => fn_out.single = fn_out.chained

-----------------------------------------------------------------------------
(* Properties of league_standings_for_season, checked under SpecStandings *)

StandingsCall ==
    fn_in.op = "league_standings_for_season" /\ fn_out.kind # "Pending"

\* the entries of a manifest that carry the id, in manifest order
EntriesWithId(seasons, id) == SelectSeq(seasons, LAMBDA s : s.id = id)

\* C29: the manifest is requested first; a failed manifest request, or a
\* manifest without the id, ends the call with that error, or with the
\* Other error "Invalid Season Id <id>", and no standings request; otherwise
\* exactly one standings request follows, for the standings_end of the first
\* entry with the id, and its standings or its error is returned.
C29_ManifestThenStandings ==
    StandingsCall =>
        /\ fn_out.requests[1] = <<"s","t","a","n","d","i","n","g","s","-","s","e","a","s","o","n">>
        /\ fn_out.kind = "Running" /\ fn_out.at = "manifest_requested" =>
               Len(fn_out.requests) = 1
        /\ "manifest" \in DOMAIN fn_out =>
               IF fn_out.manifest.kind # "Ok"
               THEN /\ fn_out.kind = "Returned"
                    /\ fn_out.result = fn_out.manifest
                    /\ Len(fn_out.requests) = 1
               ELSE LET entries == EntriesWithId(fn_out.manifest.value,
                                                 fn_in.season_id)
                    IN  IF entries = <<>>
                        THEN /\ fn_out.kind = "Returned"
                             /\ fn_out.result.kind = "Other"
                             /\ fn_out.result.message =
                                    <<"I","n","v","a","l","i","d"," ","S","e","a","s","o","n"," ","I","d"," ">>
                                        \o i32_to_string(fn_in.season_id)
                             /\ Len(fn_out.requests) = 1
                        ELSE /\ Len(fn_out.requests) = 2
                             /\ Segments(fn_out.requests[2]) =
                                    <<<<"s","t","a","n","d","i","n","g","s">>, entries[1].standings_end>>
                             /\ fn_out.kind = "Returned" =>
                                    fn_out.result = fn_out.standings

\* a manifest that lists season 20242025 twice with different end dates:
\* the standings of the first listing were requested and returned
C29_Witness ==
    /\ StandingsCall /\ fn_out.kind = "Returned"
    /\ fn_in.season_id = 20242025
    /\ fn_out.manifest.kind = "Ok"
    /\ Len(EntriesWithId(fn_out.manifest.value, 20242025)) = 2
    /\ fn_out.manifest.value[1].standings_end # fn_out.manifest.value[2].standings_end
    /\ LastSegment(fn_out.requests[2]) = fn_out.manifest.value[1].standings_end
    /\ fn_out.result = Ok(<<"MTL", "TOR">>)

-----------------------------------------------------------------------------
(* Properties of the Season round trip, checked under SpecSeasonTrip *)

SeasonTripped == fn_out.kind = "SeasonTrip"

\* C30: for every start_year, from_str(to_api_string(Season{start_year})) is
\* Some(Season{start_year}); for every string s that from_str accepts,
\* to_api_string of the season it returns is s.
C30_FormatAndParseAreInverse ==
    SeasonTripped =>
        /\ fn_in.op = "season_format_parse" =>
               /\ fn_out.parsed.kind = "Some"
               /\ fn_out.parsed.season = Season(fn_in.start_year)
        /\ fn_in.op = "season_parse_format" /\ fn_out.parsed.kind = "Some" =>
               /\ fn_out.api.kind = "String"
               /\ fn_out.api.text = fn_in.s

\* what does hold: the two are inverse on the seasons whose two years have
\* four digits each, and on the strings of eight digits that name them
SeasonTrip_InverseOnFourDigitYears ==
    SeasonTripped =>
        /\ fn_in.op = "season_format_parse"
             /\ fn_in.start_year >= 1000 /\ fn_in.start_year <= 9998 =>
               /\ fn_out.parsed.kind = "Some"
               /\ fn_out.parsed.season = Season(fn_in.start_year)
        /\ fn_in.op = "season_parse_format"
             /\ IsConsecutiveYearsText(fn_in.s) /\ fn_in.s[1] # "0" =>
               /\ fn_out.parsed.kind = "Some"
               /\ fn_out.api.kind = "String"
               /\ fn_out.api.text = fn_in.s

====
